---- MODULE Spec2Model ----
(***************************************************************************)
(* Lab Safety Assistant: the retrieval cascade (search_documents), the     *)
(* prompt composition (summarize_history, compose_messages), the response  *)
(* normalisation of LabSafetyAssistantV3.query, the assistant state they   *)
(* act on, and the submit handler of the Streamlit client (app.py).        *)
(*                                                                         *)
(* Text is modelled character by character: a Python str is a sequence of  *)
(* one-character strings, so that the regular expressions of the source    *)
(* (CAS shape, formula tokens, word boundaries) are computed, not assumed. *)
(* Scores are fixed-point integers in units of 1/10000 (1.0 = 10000);      *)
(* cosine similarities are integers in units of 1/100.                     *)
(***************************************************************************)
EXTENDS Integers, Sequences, FiniteSets, TLC

VARIABLES
    corpus,        \* self.corpus: sequence of document texts
    meta,          \* self.meta: sequence of per-document metadata records
    word_pair,     \* fitted word n-gram index: query text -> similarity per document
    char_pair,     \* fitted char n-gram index: query text -> similarity per document
    query,         \* argument of the search_documents call under study
    top_k,         \* argument top_k of that call
    results,       \* value returned by that call
    pc,            \* "ready" before the call, "done" after it
    chat_history,  \* self.chat_history: sequence of {role, content} turns
    last_call,     \* how the last LabSafetyAssistantV3.query call ended
    session_state, \* st.session_state of each UI session: messages and last_parsed
    submitted      \* the last form submission: its session, its user_input, and how many there were

vars == <<corpus, meta, word_pair, char_pair, query, top_k, results, pc, chat_history, last_call,
          session_state, submitted>>

(***************************************************************************)
(* Characters and the str methods the source uses                          *)
(***************************************************************************)
Digits == {"0", "1", "2", "3", "4", "5", "6", "7", "8", "9"}

UpperSeq == <<"A", "B", "C", "D", "E", "F", "G", "H", "I", "J", "K", "L", "M",
              "N", "O", "P", "Q", "R", "S", "T", "U", "V", "W", "X", "Y", "Z">>

LowerSeq == <<"a", "b", "c", "d", "e", "f", "g", "h", "i", "j", "k", "l", "m",
              "n", "o", "p", "q", "r", "s", "t", "u", "v", "w", "x", "y", "z">>

Letters == {UpperSeq[i] : i \in 1..Len(UpperSeq)} \cup {LowerSeq[i] : i \in 1..Len(LowerSeq)}

\* \w of Python's re on str patterns (ASCII part)
WordChars == Letters \cup Digits \cup {"_"}

\* the character class [A-Za-z0-9\(\)\+\-]
FormulaChars == Letters \cup Digits \cup {"(", ")", "+", "-"}

\* the characters str.strip() removes and \s matches (ASCII part)
Whitespace == {" ", "\t", "\n", "\r"}

\* None, and the empty str: both falsy wherever the source tests them
NoneStr == <<>>

LowerChar(c) ==
    IF \E i \in 1..Len(UpperSeq) : UpperSeq[i] = c
    THEN LowerSeq[CHOOSE i \in 1..Len(UpperSeq) : UpperSeq[i] = c]
    ELSE c

\* str.lower()
Lower(s) == [i \in 1..Len(s) |-> LowerChar(s[i])]

\* str.strip()
Strip(s) ==
    LET keep == {i \in 1..Len(s) : s[i] \notin Whitespace}
    IN  IF keep = {} THEN <<>>
        ELSE LET lo == CHOOSE i \in keep : \A j \in keep : i <= j
                 hi == CHOOSE i \in keep : \A j \in keep : j <= i
             IN  SubSeq(s, lo, hi)

\* x in y, for two str
Contains(y, x) ==
    \E p \in 1..(Len(y) - Len(x) + 1) : SubSeq(y, p, p + Len(x) - 1) = x

\* the character at position i of s is a \w character
IsWordAt(s, i) == i \in 1..Len(s) /\ s[i] \in WordChars

\* \b holds between positions p-1 and p of s (p in 1..Len(s)+1)
WordBoundary(s, p) == IsWordAt(s, p - 1) # IsWordAt(s, p)

\* re.search(r'\b' + re.escape(a) + r'\b', s) finds a match
WholeWordSearch(a, s) ==
    \E p \in 1..(Len(s) - Len(a) + 1) :
        /\ SubSeq(s, p, p + Len(a) - 1) = a
        /\ WordBoundary(s, p)
        /\ WordBoundary(s, p + Len(a))

\* \b(\d{2,7}-\d{2}-\d)\b matches at position p of s with n leading digits
CasShapeAt(s, p, n) ==
    /\ p + n + 4 <= Len(s)
    /\ WordBoundary(s, p)
    /\ \A k \in 0..(n - 1) : s[p + k] \in Digits
    /\ s[p + n] = "-"
    /\ s[p + n + 1] \in Digits
    /\ s[p + n + 2] \in Digits
    /\ s[p + n + 3] = "-"
    /\ s[p + n + 4] \in Digits
    /\ WordBoundary(s, p + n + 5)

\* re.search(r'\b(\d{2,7}-\d{2}-\d)\b', s): group(1) of the leftmost match,
\* NoneStr when there is none
CasSearch(s) ==
    LET starts == {p \in 1..Len(s) : \E n \in 2..7 : CasShapeAt(s, p, n)}
    IN  IF starts = {} THEN NoneStr
        ELSE LET p == CHOOSE x \in starts : \A y \in starts : x <= y
                 n == CHOOSE x \in 2..7 :
                          /\ CasShapeAt(s, p, x)
                          /\ \A y \in 2..7 : CasShapeAt(s, p, y) => y <= x
             IN  SubSeq(s, p, p + n + 4)

\* set(t.lower() for t in re.findall(r'[A-Za-z0-9\(\)\+\-]+', s))
TokenSet(s) ==
    LET inClass(i) == i \in 1..Len(s) /\ s[i] \in FormulaChars
    IN  {Lower(SubSeq(s, i, j)) : <<i, j>> \in
            {<<a, b>> \in (1..Len(s)) \X (1..Len(s)) :
                /\ a <= b
                /\ \A k \in a..b : inClass(k)
                /\ ~inClass(a - 1)
                /\ ~inClass(b + 1)}}

(***************************************************************************)
(* Small helpers for Python lists                                          *)
(***************************************************************************)
Min(a, b) == IF a <= b THEN a ELSE b

\* s[:k] for k >= 0
Take(s, k) == SubSeq(s, 1, Min(k, Len(s)))

\* the elements of a finite set of integers in increasing order
RECURSIVE Ascending(_)
Ascending(S) ==
    IF S = {} THEN <<>>
    ELSE LET m == CHOOSE x \in S : \A y \in S : x <= y
         IN  <<m>> \o Ascending(S \ {m})

\* every arrangement of the finite set S as a sequence without repetition
Arrangements(S) ==
    {f \in [1..Cardinality(S) -> S] : \A i, j \in 1..Cardinality(S) : f[i] = f[j] => i = j}

(***************************************************************************)
(* load_documents: a file is given by its stem, its first line and what    *)
(* the extraction regexes found in its text                                *)
(***************************************************************************)
RECURSIVE SubUnderscores(_)
\* re.sub(r'[_]+', ' ', s)
SubUnderscores(s) ==
    IF s = <<>> THEN <<>>
    ELSE IF Head(s) = "_"
         THEN IF Len(s) > 1 /\ s[2] = "_"
              THEN SubUnderscores(Tail(s))
              ELSE <<" ">> \o SubUnderscores(Tail(s))
         ELSE <<Head(s)>> \o SubUnderscores(Tail(s))

\* pretty_name = re.sub(r'[_]+', ' ', fname).strip()
PrettyName(stem) == Strip(SubUnderscores(stem))

\* the characters re.split(r'[-<en dash><em dash>:,(]', first_line) splits on;
\* the two non-ASCII dashes are written as the one-character tokens "ndash", "mdash"
HeaderSplitChars == {"-", "ndash", "mdash", ":", ",", "("}

\* header_short = re.split(HeaderSplitChars, first_line)[0].strip()
HeaderShort(first_line) ==
    LET cuts == {i \in 1..Len(first_line) : first_line[i] \in HeaderSplitChars}
    IN  IF cuts = {} THEN Strip(first_line)
        ELSE Strip(SubSeq(first_line, 1, (CHOOSE i \in cuts : \A j \in cuts : i <= j) - 1))

\* the aliases set built for one file
Aliases(f) ==
    {Lower(PrettyName(f.stem))}
        \cup (IF HeaderShort(f.first_line) # <<>> THEN {Lower(HeaderShort(f.first_line))} ELSE {})
        \cup (IF f.cas # NoneStr THEN {f.cas} ELSE {})
        \cup (IF f.formula # NoneStr THEN {Lower(f.formula)} ELSE {})
        \cup {Lower(f.synonyms[i]) : i \in 1..Len(f.synonyms)}

\* the meta record appended for one file; "aliases" is list(aliases) of a set,
\* whose order Python does not fix: it is kept as the set
MetaOf(f) ==
    [filename |-> f.filename,
     pretty_name |-> PrettyName(f.stem),
     header |-> f.first_line,
     aliases |-> Aliases(f),
     cas |-> f.cas,
     formula |-> f.formula,
     synonyms |-> f.synonyms,
     text |-> f.text]

\* load_documents over the files of a directory, given in sorted order
load_documents(files) ==
    [corpus |-> [i \in 1..Len(files) |-> files[i].text],
     meta |-> [i \in 1..Len(files) |-> MetaOf(files[i])]]

(***************************************************************************)
(* search_documents                                                        *)
(***************************************************************************)
TOP_K == 4
TFIDF_SCORE_THRESHOLD == 600
ALIAS_MIN_LEN == 3
SCORE_CAS == 10000
SCORE_FORMULA == 9800
SCORE_ALIAS == 9500
WEIGHT_WORD == 45
WEIGHT_CHAR == 55

Passage(docs, m, i, score, method) ==
    [text |-> docs[i], source |-> m[i].filename, score |-> score, method |-> method]

\* tier 1: the loop over meta returns at the first document whose stored CAS
\* contains the CAS-shaped substring of the query
CasTier(q, docs, m) ==
    LET cas_q == CasSearch(q)
        hits == {i \in 1..Len(m) : m[i].cas # NoneStr /\ Contains(m[i].cas, cas_q)}
    IN  IF cas_q = NoneStr \/ hits = {} THEN <<>>
        ELSE <<Passage(docs, m, CHOOSE i \in hits : \A j \in hits : i <= j, SCORE_CAS, "cas")>>

\* mutant of FormulaHit: the formula as a substring of the query
FormulaHitSubstring(q, mi) == mi.formula # NoneStr /\ Contains(Lower(q), Lower(mi.formula))

\* tier 2: fm and fm.lower() in token_set
FormulaHit(q, mi) == mi.formula # NoneStr /\ Lower(mi.formula) \in TokenSet(q)

\* mutant of FormulaTier: the hits returned without the [:top_k] slice
FormulaTierUncut(q, docs, m, k) ==
    LET hits == Ascending({i \in 1..Len(m) : FormulaHit(q, m[i])})
    IN  [n \in 1..Len(hits) |-> Passage(docs, m, hits[n], SCORE_FORMULA, "formula")]

FormulaTier(q, docs, m, k) ==
    LET hits == Ascending({i \in 1..Len(m) : FormulaHit(q, m[i])})
    IN  Take([n \in 1..Len(hits) |-> Passage(docs, m, hits[n], SCORE_FORMULA, "formula")], k)

\* tier 3: one alias a of a document against the lowercased query
AliasMatch(a, q_lower) ==
    LET a_clean == Lower(Strip(a))
    IN  /\ a # <<>>
        /\ Len(a_clean) >= ALIAS_MIN_LEN
        /\ IF \E i \in 1..Len(a_clean) : a_clean[i] = " "
           THEN Contains(q_lower, a_clean)
           ELSE WholeWordSearch(a_clean, q_lower)

\* the inner loop breaks at the first matching alias: one hit per document
AliasHits(q_lower, m) ==
    LET idx == Ascending({i \in 1..Len(m) : \E a \in m[i].aliases : AliasMatch(a, q_lower)})
    IN  [n \in 1..Len(idx) |-> <<idx[n], SCORE_ALIAS>>]

\* the seen/out loop: first occurrence of each document index, in order
Dedupe(alias_hits) ==
    LET first == {n \in 1..Len(alias_hits) :
                     \A n2 \in 1..(n - 1) : alias_hits[n2][1] # alias_hits[n][1]}
        keep == Ascending(first)
    IN  [n \in 1..Len(keep) |-> alias_hits[keep[n]]]

\* mutant of AliasTier: the last k matching documents instead of the first
AliasTier_last_k(q_lower, docs, m, k) ==
    LET out == Dedupe(AliasHits(q_lower, m))
        all == [n \in 1..Len(out) |-> Passage(docs, m, out[n][1], out[n][2], "alias")]
    IN  SubSeq(all, Len(all) - Min(k, Len(all)) + 1, Len(all))

AliasTier(q_lower, docs, m, k) ==
    LET out == Dedupe(AliasHits(q_lower, m))
    IN  Take([n \in 1..Len(out) |-> Passage(docs, m, out[n][1], out[n][2], "alias")], k)

\* cosine_sim(vectorizer.transform([q]), X) of a fitted (vectorizer, X) pair
Similarity(pair, q) == pair[q]

\* combined = 0.45 * sim_word + 0.55 * sim_char
Combined(wp, cp, q) ==
    [i \in DOMAIN Similarity(wp, q) |->
        WEIGHT_WORD * Similarity(wp, q)[i] + WEIGHT_CHAR * Similarity(cp, q)[i]]

\* idxs = np.where(combined >= TFIDF_SCORE_THRESHOLD)[0]
Admitted(combined) == {i \in DOMAIN combined : combined[i] >= TFIDF_SCORE_THRESHOLD}

\* mutant of RankedChoices: the [::-1] forgotten, scores non-decreasing
RankedAscending(combined) ==
    {r \in Arrangements(Admitted(combined)) :
        \A i, j \in 1..Len(r) : i < j => combined[r[i]] <= combined[r[j]]}

\* the values idxs[np.argsort(combined[idxs])[::-1]] may take: the admitted
\* indexes by non-increasing score; the order among equal scores is whatever
\* the sort of the numpy build yields
RankedChoices(combined) ==
    {r \in Arrangements(Admitted(combined)) :
        \A i, j \in 1..Len(r) : i < j => combined[r[i]] >= combined[r[j]]}

\* mutant of FuzzyTier: no admission guard, the best document is returned
\* whatever its score
FuzzyTierBestGuess(combined, docs, m, k, ranked) ==
    IF ranked # <<>>
    THEN Take([n \in 1..Len(ranked) |-> Passage(docs, m, ranked[n], combined[ranked[n]], "tfidf")], k)
    ELSE IF DOMAIN combined = {} THEN <<>>
    ELSE LET best == CHOOSE i \in DOMAIN combined : \A j \in DOMAIN combined : combined[j] <= combined[i]
         IN  <<Passage(docs, m, best, combined[best], "tfidf")>>

\* tier 4, with ranked the order the sort yielded
FuzzyTier(combined, docs, m, k, ranked) ==
    LET max_score == IF DOMAIN combined = {} THEN 0
                     ELSE CHOOSE x \in {combined[i] : i \in DOMAIN combined} :
                              \A i \in DOMAIN combined : combined[i] <= x
    IN  IF max_score < TFIDF_SCORE_THRESHOLD THEN <<>>
        ELSE IF Admitted(combined) = {} THEN <<>>
        ELSE Take([n \in 1..Len(ranked) |-> Passage(docs, m, ranked[n], combined[ranked[n]], "tfidf")], k)

\* mutant of search_documents: the alias tier tried before the formula tier
search_documents_alias_first(qry, docs, m, wp, cp, k, ranked) ==
    LET q == Strip(qry)
        q_lower == Lower(q)
    IN  IF CasTier(q, docs, m) # <<>> THEN CasTier(q, docs, m)
        ELSE IF AliasTier(q_lower, docs, m, k) # <<>> THEN AliasTier(q_lower, docs, m, k)
        ELSE IF FormulaTier(q, docs, m, k) # <<>> THEN FormulaTier(q, docs, m, k)
        ELSE FuzzyTier(Combined(wp, cp, q), docs, m, k, ranked)

search_documents(qry, docs, m, wp, cp, k, ranked) ==
    LET q == Strip(qry)
        q_lower == Lower(q)
    IN  IF CasTier(q, docs, m) # <<>> THEN CasTier(q, docs, m)
        ELSE IF FormulaTier(q, docs, m, k) # <<>> THEN FormulaTier(q, docs, m, k)
        ELSE IF AliasTier(q_lower, docs, m, k) # <<>> THEN AliasTier(q_lower, docs, m, k)
        ELSE FuzzyTier(Combined(wp, cp, q), docs, m, k, ranked)

(***************************************************************************)
(* The str values of the fixtures                                          *)
(***************************************************************************)
S_An == <<"A", "n">>
S_AnHeader == <<"A", "n", ":", " ", "a", "c", "i", "d">>
S_Acid == <<"A", "c", "i", "d">>
S_HCl == <<"H", "C", "l">>
S_HClHeader == <<"H", "C", "l", " ", "(", "g", "a", "s", ")">>
S_ammonium == <<"a", "m", "m", "o", "n", "i", "u", "m">>
S_Ammonium == <<"A", "m", "m", "o", "n", "i", "u", "m">>
S_NH4plus == <<"N", "H", "4", "+">>
S_an_acid == <<"a", "n", "_", "a", "c", "i", "d">>
S_AnAcidHeader == <<"A", "n", " ", "a", "c", "i", "d">>
S_cas12 == <<"1", "2", "-", "3", "4", "-", "5">>
S_cas112 == <<"1", "1", "2", "-", "3", "4", "-", "5">>
S_nh4plusx == <<"n", "h", "4", "+", "x">>
S_an == <<"a", "n">>
S_acid == <<"a", "c", "i", "d">>
S_image == <<"i", "m", "a", "g", "e">>
S_rawImage1 == <<"i", "m", "a", "g", "e", ":", "H", "C", "l">>
S_rawImage2 == <<"I", "M", "A", "G", "E", " ", ":", " ", "x", "y", "z">>
S_placeholder == <<"(", "i", "m", "a", "g", "e", " ", "p", "r", "o", "v", "i", "d", "e", "d", ")">>
S_xyz == <<"x", "y", "z">>

(***************************************************************************)
(* The documents directory and the queries the checks draw from            *)
(***************************************************************************)
\* the files of the directory, sorted by file name as sorted(p.glob("*.txt"))
\* sorts them; HCl.txt and an_acid.txt are two sheets of the same substance,
\* and the CAS number of ammonium.txt has the CAS number of HCl.txt as a substring
Files ==
    <<[filename |-> "An.txt", stem |-> S_An, first_line |-> S_AnHeader,
       cas |-> NoneStr, formula |-> NoneStr, synonyms |-> <<S_Acid, S_AnAcidHeader>>,
       text |-> "text of An.txt"],
      [filename |-> "HCl.txt", stem |-> S_HCl, first_line |-> S_HClHeader,
       cas |-> S_cas12, formula |-> S_HCl, synonyms |-> <<S_Acid>>, text |-> "text of HCl.txt"],
      [filename |-> "ammonium.txt", stem |-> S_ammonium, first_line |-> S_Ammonium,
       cas |-> S_cas112, formula |-> S_NH4plus, synonyms |-> <<>>, text |-> "text of ammonium.txt"],
      [filename |-> "an_acid.txt", stem |-> S_an_acid, first_line |-> S_AnAcidHeader,
       cas |-> S_cas12, formula |-> S_HCl, synonyms |-> <<>>, text |-> "text of an_acid.txt"]>>

\* the directories: every non-empty selection of the files, in sorted order
Directories ==
    {[n \in 1..Cardinality(S) |-> Files[Ascending(S)[n]]] :
        S \in (SUBSET (1..Len(Files))) \ {{}}}

\* the words queries are made of
Vocabulary ==
    {S_cas12, S_cas112, S_HCl, S_nh4plusx, S_an, S_acid, S_xyz}

\* the largest number of words in a query
MaxWords == 2

\* the queries of at most n words, words separated by one space
RECURSIVE QueriesOf(_)
QueriesOf(n) ==
    IF n = 0 THEN {<<>>}
    ELSE QueriesOf(n - 1)
            \cup {w : w \in Vocabulary}
            \cup {q \o <<" ">> \o w : q \in (QueriesOf(n - 1) \ {<<>>}), w \in Vocabulary}

Queries == QueriesOf(MaxWords)

\* the largest top_k a call passes
MaxTopK == 2

\* word and char similarities of one document (1/100), giving combined
\* scores 0, 585, 605 and 10000 against the threshold 600
SimPairs == {<<0, 0>>, <<13, 0>>, <<0, 11>>, <<100, 100>>}

\* the similarity vectors of the two indexes for n documents: each document
\* with its own pair
SimVectors(n) == [1..n -> SimPairs]

\* similarities that grow with the position in the corpus, all admitted
GradedSimVectors(n) == {[i \in 1..n |-> <<20 * i, 20 * i>>]}

\* the queries drawn with every similarity vector; the other queries are
\* drawn with the one above
FuzzyQueries == {S_xyz, S_acid}

(***************************************************************************)
(* Specification SearchSpec: one search_documents call on drawn arguments  *)
(***************************************************************************)
InitSearch ==
    \E files \in Directories :
        LET loaded == load_documents(files)
        IN  \E qry \in Queries, k \in 1..MaxTopK :
            \E sims \in (IF qry \in FuzzyQueries THEN SimVectors(Len(files))
                         ELSE GradedSimVectors(Len(files))) :
            /\ corpus = loaded.corpus
            /\ meta = loaded.meta
            /\ word_pair = (Strip(qry) :> [i \in 1..Len(files) |-> sims[i][1]])
            /\ char_pair = (Strip(qry) :> [i \in 1..Len(files) |-> sims[i][2]])
            /\ query = qry
            /\ top_k = k
            /\ results = <<>>
            /\ pc = "ready"
            /\ chat_history = <<>>
            /\ last_call = [status |-> "none"]
            /\ session_state = <<>>
            /\ submitted = [session |-> 0, run |-> 0]

\* results = search_documents(query, corpus, meta, word_pair, char_pair, top_k)
Search ==
    /\ pc = "ready"
    /\ \E ranked \in RankedChoices(Combined(word_pair, char_pair, Strip(query))) :
          results' = search_documents(query, corpus, meta, word_pair, char_pair, top_k, ranked)
    /\ pc' = "done"
    /\ UNCHANGED <<corpus, meta, word_pair, char_pair, query, top_k, chat_history, last_call,
                 session_state, submitted>>

NextSearch == Search

SearchSpec == InitSearch /\ [][NextSearch]_vars

(***************************************************************************)
(* LabSafetyAssistantV3                                                    *)
(*                                                                         *)
(* In the reply handling a str is a sequence of text pieces (an f-string   *)
(* or a join is the concatenation of its pieces, the empty str is <<>>);   *)
(* a value decoded from JSON carries its Python type in the field t.       *)
(***************************************************************************)
PyStr(pieces) == [t |-> "str", v |-> pieces]
PyList(items) == [t |-> "list", v |-> items]
PyDict(items) == [t |-> "dict", v |-> items]
PyInt(n) == [t |-> "int", v |-> n]
PyNone == [t |-> "None"]

\* the fixed sentence of the normaliser
FALLBACK_SENTENCE ==
    <<"I could not format a paragraph summary. Please consult SDS/EHS for authoritative guidance.">>

INTRO_TEXT == "Hello - I'm Lab Safety Assistant. ..."

\* the reply texts the model may send as message content
Replies ==
    {"{\"official_response\": \"Wear goggles.\", \"confidence\": \"high\"}",
     "{\"hazards\": [\"corrosive\", \"toxic\"], \"ppe_required\": [\"goggles\"]}",
     "{\"immediate_actions\": [\"flush with water\"], \"ppe_recommended\": [\"face shield\"]}",
     "{\"confidence\": \"low\"}",
     "{\"official_response\": \"\", \"hazards\": [\"corrosive\"]}",
     "{\"official_response\": \"Safe.\", \"retrieved_meta\": [{\"source\": \"made_up.txt\"}], \"retrieved_sources\": [\"made_up.txt\"]}",
     "{\"hazards\": null}",
     "[\"corrosive\"]",
     "42",
     "I could not format this as JSON"}

\* json.loads(text): [ok |-> TRUE, value |-> ...], or [ok |-> FALSE] when it raises
json_loads(text) ==
    CASE text = "{\"official_response\": \"Wear goggles.\", \"confidence\": \"high\"}" ->
            [ok |-> TRUE, value |-> PyDict([official_response |-> PyStr(<<"Wear goggles.">>),
                                            confidence |-> PyStr(<<"high">>)])]
      [] text = "{\"hazards\": [\"corrosive\", \"toxic\"], \"ppe_required\": [\"goggles\"]}" ->
            [ok |-> TRUE, value |-> PyDict([hazards |-> PyList(<<<<"corrosive">>, <<"toxic">>>>),
                                            ppe_required |-> PyList(<<<<"goggles">>>>)])]
      [] text = "{\"immediate_actions\": [\"flush with water\"], \"ppe_recommended\": [\"face shield\"]}" ->
            [ok |-> TRUE, value |-> PyDict([immediate_actions |-> PyList(<<<<"flush with water">>>>),
                                            ppe_recommended |-> PyList(<<<<"face shield">>>>)])]
      [] text = "{\"confidence\": \"low\"}" ->
            [ok |-> TRUE, value |-> PyDict([confidence |-> PyStr(<<"low">>)])]
      [] text = "{\"official_response\": \"Safe.\", \"retrieved_meta\": [{\"source\": \"made_up.txt\"}], \"retrieved_sources\": [\"made_up.txt\"]}" ->
            [ok |-> TRUE, value |-> PyDict([official_response |-> PyStr(<<"Safe.">>),
                                            retrieved_meta |-> PyList(<<PyDict([source |-> PyStr(<<"made_up.txt">>)])>>),
                                            retrieved_sources |-> PyList(<<<<"made_up.txt">>>>)])]
      [] text = "{\"official_response\": \"\", \"hazards\": [\"corrosive\"]}" ->
            [ok |-> TRUE, value |-> PyDict([official_response |-> PyStr(<<>>),
                                            hazards |-> PyList(<<<<"corrosive">>>>)])]
      [] text = "{\"hazards\": null}" ->
            [ok |-> TRUE, value |-> PyDict([hazards |-> PyNone])]
      [] text = "[\"corrosive\"]" ->
            [ok |-> TRUE, value |-> PyList(<<<<"corrosive">>>>)]
      [] text = "42" ->
            [ok |-> TRUE, value |-> PyInt(42)]
      [] OTHER -> [ok |-> FALSE]

\* sep.join(items) for a list of str
RECURSIVE Join(_, _)
Join(sep, items) ==
    IF items = <<>> THEN <<>>
    ELSE IF Len(items) = 1 THEN items[1]
    ELSE items[1] \o <<sep>> \o Join(sep, Tail(items))

\* d.get(key, default) on the items of a dict
Get(d, key, default) == IF key \in DOMAIN d THEN d[key] ELSE default

\* bool(x) of a decoded value
Truthy(x) ==
    CASE x.t = "None" -> FALSE
      [] x.t = "int" -> x.v # 0
      [] x.t = "dict" -> DOMAIN x.v # {}
      [] OTHER -> x.v # <<>>

\* ", ".join(x) raises TypeError unless x is iterable; the replies hold lists of str
Joinable(x) == x.t = "list"

\* synthesize_paragraph_from_struct raises (a join over a value that is no list)
SynthesizeRaises(d) ==
    \/ ~Joinable(Get(d, "hazards", PyList(<<>>)))
    \/ ~Joinable(Get(d, "ppe_required", PyList(<<>>)))
    \/ ~Joinable(Get(d, "ppe_recommended", PyList(<<>>)))
    \/ (Truthy(Get(d, "immediate_actions", PyNone)) /\ ~Joinable(d["immediate_actions"]))

\* x or default, for the str pieces x
OrElse(x, default) == IF x # <<>> THEN x ELSE default

\* synthesize_paragraph_from_struct(parsed), for the items d of the dict
synthesize_paragraph_from_struct(d) ==
    LET hazards == OrElse(Join(", ", Get(d, "hazards", PyList(<<>>)).v), <<"Potential hazards unknown">>)
        ppe_req == OrElse(Join(", ", Get(d, "ppe_required", PyList(<<>>)).v), <<"standard lab PPE">>)
        ppe_rec == Join(", ", Get(d, "ppe_recommended", PyList(<<>>)).v)
        immediate == IF Truthy(Get(d, "immediate_actions", PyNone))
                     THEN Join(" ", Take(d["immediate_actions"].v, 2))
                     ELSE <<>>
        explain == IF Truthy(Get(d, "explain_short", PyNone)) THEN d["explain_short"].v ELSE <<>>
    IN  explain \o <<" Primary hazards: ">> \o hazards \o <<". Required PPE: ">> \o ppe_req \o <<".">>
            \o (IF ppe_rec # <<>> THEN <<" Recommended: ">> \o ppe_rec \o <<".">> ELSE <<>>)
            \o (IF immediate # <<>> THEN <<" Immediate actions: ">> \o immediate \o <<".">> ELSE <<>>)

\* the try/except around json.loads: the decoded value, or {"raw_text": ...}
ParseReply(assistant_content) ==
    IF assistant_content # "None" /\ json_loads(assistant_content).ok
    THEN json_loads(assistant_content).value
    ELSE PyDict([raw_text |-> IF assistant_content = "None" THEN PyNone
                              ELSE PyStr(<<assistant_content>>)])

\* the keys whose presence selects the synthesized paragraph
SYNTH_KEYS == {"hazards", "ppe_required", "explain_short"}

\* the "ensure official_response" step raises
EnsureRaises(parsed) ==
    /\ parsed.t = "dict"
    /\ "official_response" \notin DOMAIN parsed.v
    /\ SYNTH_KEYS \cap DOMAIN parsed.v # {}
    /\ SynthesizeRaises(parsed.v)

\* mutant of EnsureOfficialResponse: the else branch with the fixed sentence
\* left out
EnsureWithoutFallback(parsed) ==
    IF parsed.t = "dict" /\ "official_response" \notin DOMAIN parsed.v
          /\ SYNTH_KEYS \cap DOMAIN parsed.v # {}
    THEN PyDict(("official_response" :> PyStr(synthesize_paragraph_from_struct(parsed.v))) @@ parsed.v)
    ELSE parsed

\* mutant of EnsureOfficialResponse: an official_response that is empty is
\* taken as absent
EnsureWhenFalsy(parsed) ==
    IF parsed.t = "dict" /\ ~Truthy(Get(parsed.v, "official_response", PyNone))
    THEN IF SYNTH_KEYS \cap DOMAIN parsed.v # {}
         THEN PyDict(("official_response" :> PyStr(synthesize_paragraph_from_struct(parsed.v))) @@ parsed.v)
         ELSE PyDict(("official_response" :> PyStr(FALLBACK_SENTENCE)) @@ parsed.v)
    ELSE parsed

\* the "ensure official_response" step: parsed after it
EnsureOfficialResponse(parsed) ==
    IF parsed.t = "dict" /\ "official_response" \notin DOMAIN parsed.v
    THEN IF SYNTH_KEYS \cap DOMAIN parsed.v # {}
         THEN PyDict(("official_response" :> PyStr(synthesize_paragraph_from_struct(parsed.v))) @@ parsed.v)
         ELSE PyDict(("official_response" :> PyStr(FALLBACK_SENTENCE)) @@ parsed.v)
    ELSE parsed

\* re.match(r'(?i)^\s*image\s*:\s*(.+)$', raw): the position where group(1)
\* starts, 0 when there is no match; raw is stripped
ImageRefStart(raw) ==
    LET ws(i) == i \in 1..Len(raw) /\ raw[i] \in Whitespace
        colon == CHOOSE i \in 6..(Len(raw) + 1) : (\A j \in 6..(i - 1) : ws(j)) /\ ~ws(i)
        start == CHOOSE i \in (colon + 1)..(Len(raw) + 1) :
                     (\A j \in (colon + 1)..(i - 1) : ws(j)) /\ ~ws(i)
    IN  IF /\ Len(raw) >= 5
           /\ Lower(SubSeq(raw, 1, 5)) = S_image
           /\ colon <= Len(raw) /\ raw[colon] = ":"
           /\ start <= Len(raw)
           /\ \A j \in start..Len(raw) : raw[j] # "\n"
        THEN start ELSE 0

\* mutant of user_input_to_content: the image reference used as the
\* retrieval query
user_input_to_content_by_reference(raw_input) ==
    LET raw == Strip(raw_input)
        start == ImageRefStart(raw)
    IN  IF start # 0
        THEN [items |-> <<[type |-> "text", text |-> S_placeholder],
                          [type |-> "image_url", image_url |-> [url |-> Strip(SubSeq(raw, start, Len(raw)))]]>>,
              retrieval_query |-> Strip(SubSeq(raw, start, Len(raw)))]
        ELSE [items |-> <<[type |-> "text", text |-> raw]>>, retrieval_query |-> raw]

\* user_input_to_content(raw_input): the content items and the retrieval query
user_input_to_content(raw_input) ==
    LET raw == Strip(raw_input)
        start == ImageRefStart(raw)
    IN  IF start # 0
        THEN [items |-> <<[type |-> "text", text |-> S_placeholder],
                          [type |-> "image_url", image_url |-> [url |-> Strip(SubSeq(raw, start, Len(raw)))]]>>,
              retrieval_query |-> S_placeholder]
        ELSE [items |-> <<[type |-> "text", text |-> raw]>>, retrieval_query |-> raw]

(***************************************************************************)
(* Prompt composition: summarize_history and compose_messages. The texts   *)
(* of the prompt are strings; Len, SubSeq and \o act on them character by  *)
(* character.                                                              *)
(***************************************************************************)
\* the fixed instructions (abbreviated)
SYSTEM_PROMPT == "You are Lab Safety Assistant - a conservative, safety-first expert ..."

\* the few-shot exemplars (the first and the last of the eleven): the user
\* texts of the source; assistant_json is the text json.dumps gives for the
\* exemplar (abbreviated)
FEW_SHOT_EXAMPLES ==
    <<
     [user |-> "I will heat concentrated HCl on a hotplate and then neutralize with NaOH on the bench. Photo caption: beaker on hotplate, HCl bottle visible, no gloves.",
      assistant_json |-> "{\"hazards\": [...], ...}"],
     [user |-> "Will phenolphthalein as an indicator cause a big safety problem?",
      assistant_json |-> "{\"hazards\": [...], ...}"]
    >>

\* the concatenation of seq[lo..hi], a sequence of strings
RECURSIVE StrRange(_, _, _)
StrRange(seq, lo, hi) ==
    IF lo > hi THEN ""
    ELSE IF lo = hi THEN seq[lo]
    ELSE LET mid == (lo + hi) \div 2
         IN  StrRange(seq, lo, mid) \o StrRange(seq, mid + 1, hi)

\* "".join(seq) for a sequence of strings
Str(seq) == StrRange(seq, 1, Len(seq))

\* sep.join(seq) for a sequence of strings
JoinStr(sep, seq) ==
    IF Len(seq) = 0 THEN ""
    ELSE Str([n \in 1..(2 * Len(seq) - 1) |-> IF n % 2 = 1 THEN seq[(n + 1) \div 2] ELSE sep])

\* the character of s at position i
CharAt(s, i) == SubSeq(s, i, i)

\* s.strip() for a string
StripStr(s) ==
    LET keep == {i \in 1..Len(s) : CharAt(s, i) \notin Whitespace}
        first == CHOOSE i \in keep : \A j \in keep : i <= j
        last == CHOOSE i \in keep : \A j \in keep : j <= i
    IN  IF keep = {} THEN "" ELSE SubSeq(s, first, last)

\* re.sub(r'\s+', ' ', s): the first character of a run of whitespace
\* becomes a space, the others go
CollapseWhitespace(s) ==
    Str([i \in 1..Len(s) |->
            IF CharAt(s, i) \in Whitespace
            THEN (IF i > 1 /\ CharAt(s, i - 1) \in Whitespace THEN "" ELSE " ")
            ELSE CharAt(s, i)])

\* s.replace("\n", " ")
Flatten(s) == Str([i \in 1..Len(s) |-> IF CharAt(s, i) = "\n" THEN " " ELSE CharAt(s, i)])

\* str.upper() of one character
UpperChar(c) ==
    IF \E i \in 1..Len(LowerSeq) : LowerSeq[i] = c
    THEN UpperSeq[CHOOSE i \in 1..Len(LowerSeq) : LowerSeq[i] = c]
    ELSE c

\* str.capitalize(): first character upper case, the rest lower case
Capitalize(s) ==
    IF Len(s) = 0 THEN ""
    ELSE UpperChar(CharAt(s, 1)) \o Str([i \in 1..(Len(s) - 1) |-> LowerChar(CharAt(s, i + 1))])

\* the length limit of a summary line's content and the length kept before
\* the ellipsis
SUMMARY_MAX_CHARS == 200
SUMMARY_KEPT_CHARS == 197

\* the number of turns compose_messages asks the summary for
SUMMARY_MAX_TURNS == 6

\* the text summarize_history takes from the content of a turn
ContentText(content) ==
    IF content.t = "list"
    THEN LET isText(itm) == "type" \in DOMAIN itm /\ itm.type = "text"
             idx == Ascending({n \in 1..Len(content.v) : isText(content.v[n])})
             texts == [n \in 1..Len(idx) |-> Str(content.v[idx[n]].text)]
             joined == StripStr(JoinStr(" ", texts))
         IN  IF joined # "" THEN joined ELSE "(image provided)"
    ELSE IF content.t = "None" THEN "None"
    ELSE Str(content.v)

\* one line of the summary
SummaryLine(m) ==
    LET content_text == CollapseWhitespace(ContentText(m.content))
        cut == IF Len(content_text) > SUMMARY_MAX_CHARS
               THEN SubSeq(content_text, 1, SUMMARY_KEPT_CHARS) \o "..."
               ELSE content_text
    IN  Capitalize(m.role) \o ": " \o cut

\* mutant of summarize_history: the first max_turns turns instead of the last
summarize_history_oldest(history, max_turns) ==
    IF Len(history) = 0 THEN ""
    ELSE LET last == SubSeq(history, 1, Min(max_turns, Len(history)))
         IN  JoinStr("\n", [n \in 1..Len(last) |-> SummaryLine(last[n])])

\* summarize_history(chat_history, max_turns), max_turns > 0
summarize_history(history, max_turns) ==
    IF Len(history) = 0 THEN ""
    ELSE LET from == IF Len(history) > max_turns THEN Len(history) - max_turns + 1 ELSE 1
             last == SubSeq(history, from, Len(history))
         IN  JoinStr("\n", [n \in 1..Len(last) |-> SummaryLine(last[n])])

\* one decimal digit as a string
DigitStr(d) == <<"0", "1", "2", "3", "4", "5", "6", "7", "8", "9">>[d + 1]

\* f"{score:.3f}" for a score in units of 1/10000, rounded to the nearest
\* thousandth
Format3(score) ==
    LET millis == (score + 5) \div 10
    IN  DigitStr(millis \div 1000) \o "." \o DigitStr((millis \div 100) % 10)
            \o DigitStr((millis \div 10) % 10) \o DigitStr(millis % 10)

\* the length of the snippet of a passage
SNIPPET_CHARS == 600

\* the rendering of one retrieved passage
PassageBlock(r) ==
    LET snippet == Flatten(SubSeq(r.text, 1, Min(SNIPPET_CHARS, Len(r.text))))
    IN  "- Source: " \o r.source \o " (score=" \o Format3(r.score) \o "; method=" \o r.method
            \o ") (may not be relevant)\n  " \o snippet \o "\n\n"

\* retrieved_block
RetrievedBlock(retrieved) ==
    "RETRIEVED PASSAGES:\n" \o Str([n \in 1..Len(retrieved) |-> PassageBlock(retrieved[n])])

\* few_shot_block
FewShotBlock(few_shots) ==
    "\nFEW_SHOT_EXAMPLES:\n"
        \o Str([n \in 1..Len(few_shots) |->
                   "INPUT: " \o few_shots[n].user \o "\nOUTPUT_JSON: " \o few_shots[n].assistant_json \o "\n\n"])

\* history_block
HistoryBlock(history) ==
    LET history_summary == summarize_history(history, SUMMARY_MAX_TURNS)
    IN  IF history_summary # "" THEN "\nCONVERSATION_SUMMARY:\n" \o history_summary \o "\n\n" ELSE ""

\* system_content
SystemContent(system_prompt, retrieved, few_shots, history) ==
    system_prompt \o "\n\n" \o HistoryBlock(history) \o RetrievedBlock(retrieved) \o "\n" \o FewShotBlock(few_shots)

\* mutant of compose_messages: the new user turn put before the prior turns
compose_messages_user_first(system_prompt, retrieved, few_shots, user_content_items, history) ==
    <<[role |-> "system", content |-> PyStr(<<SystemContent(system_prompt, retrieved, few_shots, history)>>)]>>
        \o <<[role |-> "user", content |-> PyList(user_content_items)]>>
        \o history

\* compose_messages(system_prompt, retrieved, few_shots, user_content_items, chat_history)
compose_messages(system_prompt, retrieved, few_shots, user_content_items, history) ==
    <<[role |-> "system", content |-> PyStr(<<SystemContent(system_prompt, retrieved, few_shots, history)>>)]>>
        \o history
        \o <<[role |-> "user", content |-> PyList(user_content_items)]>>

\* mutant of CallOutcomes: a failed request is sent a second time
CallOutcomes_retrying(replies) ==
    {[raises |-> TRUE, error |-> e, posts |-> 2] : e \in {"HTTPError", "Timeout"}}
        \cup {[raises |-> FALSE, body |-> [error |-> "no choices"], posts |-> 1]}
        \cup {[raises |-> FALSE, body |-> [choices |-> <<[message |-> [content |-> r]]>>], posts |-> 1] :
                 r \in replies}

\* what requests.post, raise_for_status and r.json() of call_openrouter may
\* end in, the message content being one of replies: an exception, or the
\* decoded body (with or without choices; the content may be null); posts
\* is the number of requests the call sent
CallOutcomes(replies) ==
    {[raises |-> TRUE, error |-> e, posts |-> 1] : e \in {"HTTPError", "Timeout"}}
        \cup {[raises |-> FALSE, body |-> [error |-> "no choices"], posts |-> 1]}
        \cup {[raises |-> FALSE, body |-> [choices |-> <<[message |-> [content |-> r]]>>], posts |-> 1] :
                 r \in replies}

\* resp["choices"][0]["message"]["content"] raises KeyError or IndexError
ContentRaises(resp) == "choices" \notin DOMAIN resp \/ resp.choices = <<>>

(***************************************************************************)
(* Specifications of the assistant: Spec, a conversation of several        *)
(* queries; QuerySpec, one query of a new assistant with every reply       *)
(***************************************************************************)
\* the raw inputs of the user
RawInputs == {S_HCl, S_xyz, S_acid, S_rawImage1, S_rawImage2}

\* the raw inputs and the replies of the conversations of Spec
ConversationInputs == {S_HCl, S_xyz, S_rawImage1}
ConversationReplies ==
    {"{\"official_response\": \"Wear goggles.\", \"confidence\": \"high\"}",
     "{\"hazards\": null}",
     "I could not format this as JSON"}

\* the largest number of queries that reach the history in Spec
MaxTurns == 2

\* the fitted indexes build_vectorizers may yield over the loaded corpus, as
\* the similarities they give the retrieval queries
IndexChoices ==
    {[q \in {user_input_to_content(r).retrieval_query : r \in RawInputs} |->
         [i \in 1..Len(Files) |-> IF q \in {S_xyz, S_placeholder} THEN p[i] ELSE <<0, 0>>]] :
        p \in {[i \in 1..Len(Files) |-> <<0, 0>>], [i \in 1..Len(Files) |-> <<20 * i, 20 * i>>]}}

\* LabSafetyAssistantV3.__init__
Init ==
    \E index \in IndexChoices :
        /\ corpus = load_documents(Files).corpus
        /\ meta = load_documents(Files).meta
        /\ word_pair = [q \in DOMAIN index |-> [i \in 1..Len(Files) |-> index[q][i][1]]]
        /\ char_pair = [q \in DOMAIN index |-> [i \in 1..Len(Files) |-> index[q][i][2]]]
        /\ chat_history = <<[role |-> "assistant", content |-> PyStr(<<INTRO_TEXT>>)]>>
        /\ query = <<>>
        /\ top_k = TOP_K
        /\ results = <<>>
        /\ pc = "ready"
        /\ last_call = [status |-> "none"]
        /\ session_state = <<>>
        /\ submitted = [session |-> 0, run |-> 0]

\* mutant of QueryFinish: a failed model call leaves a made-up turn in the history
QueryFinish_fabricating(uc, retrieved, outcome) ==
    LET messages == compose_messages(SYSTEM_PROMPT, retrieved, FEW_SHOT_EXAMPLES, uc.items, chat_history)
        assistant_content == outcome.body.choices[1].message.content
        appended == chat_history \o <<[role |-> "user", content |-> PyList(uc.items)],
                                      [role |-> "assistant",
                                       content |-> IF assistant_content = "None" THEN PyNone
                                                   ELSE PyStr(<<assistant_content>>)]>>
        parsed == ParseReply(assistant_content)
    IN  IF outcome.raises
        THEN /\ last_call' = [status |-> "raised", error |-> outcome.error,
                              messages |-> messages, posts |-> outcome.posts]
             /\ chat_history' = chat_history \o <<[role |-> "user", content |-> PyList(uc.items)],
                                                [role |-> "assistant", content |-> PyStr(<<"(no answer)">>)]>>
        ELSE IF ContentRaises(outcome.body)
        THEN /\ last_call' = [status |-> "raised", error |-> "KeyError",
                              messages |-> messages, posts |-> outcome.posts]
             /\ chat_history' = chat_history \o <<[role |-> "user", content |-> PyList(uc.items)],
                                                [role |-> "assistant", content |-> PyStr(<<"(no answer)">>)]>>
        ELSE IF EnsureRaises(parsed)
        THEN /\ last_call' = [status |-> "raised", error |-> "TypeError",
                              messages |-> messages, posts |-> outcome.posts]
             /\ chat_history' = appended
        ELSE /\ last_call' = [status |-> "returned",
                              reply |-> assistant_content,
                              parsed |-> EnsureOfficialResponse(parsed),
                              raw_model_response |-> outcome.body,
                              retrieved |-> retrieved,
                              messages |-> messages, posts |-> outcome.posts]
             /\ chat_history' = appended

\* mutant of QueryFinish: the oldest turn is dropped when the new ones are appended
QueryFinish_windowed(uc, retrieved, outcome) ==
    LET messages == compose_messages(SYSTEM_PROMPT, retrieved, FEW_SHOT_EXAMPLES, uc.items, chat_history)
        assistant_content == outcome.body.choices[1].message.content
        appended == Tail(chat_history) \o <<[role |-> "user", content |-> PyList(uc.items)],
                                      [role |-> "assistant",
                                       content |-> IF assistant_content = "None" THEN PyNone
                                                   ELSE PyStr(<<assistant_content>>)]>>
        parsed == ParseReply(assistant_content)
    IN  IF outcome.raises
        THEN /\ last_call' = [status |-> "raised", error |-> outcome.error,
                              messages |-> messages, posts |-> outcome.posts]
             /\ UNCHANGED chat_history
        ELSE IF ContentRaises(outcome.body)
        THEN /\ last_call' = [status |-> "raised", error |-> "KeyError",
                              messages |-> messages, posts |-> outcome.posts]
             /\ UNCHANGED chat_history
        ELSE IF EnsureRaises(parsed)
        THEN /\ last_call' = [status |-> "raised", error |-> "TypeError",
                              messages |-> messages, posts |-> outcome.posts]
             /\ chat_history' = appended
        ELSE /\ last_call' = [status |-> "returned",
                              reply |-> assistant_content,
                              parsed |-> EnsureOfficialResponse(parsed),
                              raw_model_response |-> outcome.body,
                              retrieved |-> retrieved,
                              messages |-> messages, posts |-> outcome.posts]
             /\ chat_history' = appended

\* LabSafetyAssistantV3.query from compose_messages on: uc is what
\* user_input_to_content returned, retrieved what search_documents returned,
\* outcome how call_openrouter ended; last_call keeps the messages sent and
\* the number of requests besides the value returned or the error raised
QueryFinish(uc, retrieved, outcome) ==
    LET messages == compose_messages(SYSTEM_PROMPT, retrieved, FEW_SHOT_EXAMPLES, uc.items, chat_history)
        assistant_content == outcome.body.choices[1].message.content
        appended == chat_history \o <<[role |-> "user", content |-> PyList(uc.items)],
                                      [role |-> "assistant",
                                       content |-> IF assistant_content = "None" THEN PyNone
                                                   ELSE PyStr(<<assistant_content>>)]>>
        parsed == ParseReply(assistant_content)
    IN  IF outcome.raises
        THEN /\ last_call' = [status |-> "raised", error |-> outcome.error,
                              messages |-> messages, posts |-> outcome.posts]
             /\ UNCHANGED chat_history
        ELSE IF ContentRaises(outcome.body)
        THEN /\ last_call' = [status |-> "raised", error |-> "KeyError",
                              messages |-> messages, posts |-> outcome.posts]
             /\ UNCHANGED chat_history
        ELSE IF EnsureRaises(parsed)
        THEN /\ last_call' = [status |-> "raised", error |-> "TypeError",
                              messages |-> messages, posts |-> outcome.posts]
             /\ chat_history' = appended
        ELSE /\ last_call' = [status |-> "returned",
                              reply |-> assistant_content,
                              parsed |-> EnsureOfficialResponse(parsed),
                              raw_model_response |-> outcome.body,
                              retrieved |-> retrieved,
                              messages |-> messages, posts |-> outcome.posts]
             /\ chat_history' = appended

\* mutant of QueryCall: the query text is kept as an alias of the first document
QueryCall_learning(inputs, replies) ==
    \E raw_input \in inputs :
        LET uc == user_input_to_content(raw_input)
        IN  \E ranked \in RankedChoices(Combined(word_pair, char_pair, Strip(uc.retrieval_query))) :
            LET retrieved == search_documents(uc.retrieval_query, corpus, meta,
                                              word_pair, char_pair, TOP_K, ranked)
            IN  /\ query' = uc.retrieval_query
                /\ top_k' = TOP_K
                /\ results' = retrieved
                /\ pc' = "done"
                /\ \E outcome \in CallOutcomes(replies) : QueryFinish(uc, retrieved, outcome)
                /\ meta' = [meta EXCEPT ![1].aliases = @ \cup {Lower(Strip(uc.retrieval_query))}]
                /\ UNCHANGED <<corpus, word_pair, char_pair>>

\* LabSafetyAssistantV3.query(raw_input), raw_input drawn from inputs and the
\* message content of the model call from replies; ranked is the order the
\* sort of the fuzzy tier yields
QueryCall(inputs, replies) ==
    \E raw_input \in inputs :
        LET uc == user_input_to_content(raw_input)
        IN  \E ranked \in RankedChoices(Combined(word_pair, char_pair, Strip(uc.retrieval_query))) :
            LET retrieved == search_documents(uc.retrieval_query, corpus, meta,
                                              word_pair, char_pair, TOP_K, ranked)
            IN  /\ query' = uc.retrieval_query
                /\ top_k' = TOP_K
                /\ results' = retrieved
                /\ pc' = "done"
                /\ \E outcome \in CallOutcomes(replies) : QueryFinish(uc, retrieved, outcome)
                /\ UNCHANGED <<corpus, meta, word_pair, char_pair>>

\* a query of the conversation
Query ==
    /\ Len(chat_history) < 1 + 2 * MaxTurns
    /\ QueryCall(ConversationInputs, ConversationReplies)
    /\ UNCHANGED <<session_state, submitted>>

Next == Query

Spec == Init /\ [][Next]_vars

\* the first query of a new assistant, with every raw input and every reply
FirstQuery ==
    /\ last_call.status = "none"
    /\ QueryCall(RawInputs, Replies \cup {"None"})
    /\ UNCHANGED <<session_state, submitted>>

NextQuery == FirstQuery

QuerySpec == Init /\ [][NextQuery]_vars

(***************************************************************************)
(* The Streamlit client (app.py): one assistant, made once by the cached   *)
(* init_assistant and used by the script run of every UI session; each     *)
(* session has its own st.session_state. AppSpec: form submissions of the  *)
(* sessions, one script run at a time.                                     *)
(***************************************************************************)
\* the UI sessions
Sessions == {1, 2}

\* the inputs typed and the replies of the model in AppSpec
AppInputs == {S_HCl, S_xyz}
AppReplies ==
    {"{\"official_response\": \"Safe.\", \"retrieved_meta\": [{\"source\": \"made_up.txt\"}], \"retrieved_sources\": [\"made_up.txt\"]}",
     "[\"corrosive\"]"}

\* st.session_state of a session after "Session state initialization":
\* intro_text is the content of assistant.chat_history[0]
NewSessionState ==
    [messages |-> <<[role |-> "assistant",
                     content |-> PyDict([official_response |-> PyStr(<<INTRO_TEXT>>),
                                         explain_short |-> PyStr(<<>>)])]>>,
     last_parsed |-> PyDict(<<>>)]

\* content_key(obj): the stripped text of a str, the sorted JSON text of any
\* other value (one text per value)
content_key(obj) ==
    IF obj.t = "str" THEN [t |-> "str", v |-> StripStr(Str(obj.v))] ELSE obj

\* append_message_safe(role, content) on the message list msgs
append_message_safe(msgs, role, content) ==
    IF \E n \in 1..Len(msgs) :
          /\ msgs[n].role = role
          /\ content_key(msgs[n].content).t = content_key(content).t
          /\ content_key(msgs[n].content) = content_key(content)
    THEN msgs
    ELSE Append(msgs, [role |-> role, content |-> content])

\* str(n) of a natural number
RECURSIVE IntStr(_)
IntStr(n) == IF n < 10 THEN DigitStr(n) ELSE IntStr(n \div 10) \o DigitStr(n % 10)

\* str(parsed) of a decoded value that is no dict: an int, or a list of str
\* (texts without quotes or escapes)
PyRepr(x) ==
    CASE x.t = "int" -> IntStr(x.v)
      [] x.t = "None" -> "None"
      [] x.t = "list" -> "[" \o JoinStr(", ", [n \in 1..Len(x.v) |-> "'" \o Str(x.v[n]) \o "'"]) \o "]"
      [] OTHER -> "'" \o Str(x.v) \o "'"

\* the text of the error notice
ErrorNotice(error) == PyStr(<<"Model call failed: ", error>>)

\* the else branch of the submit handler for a dict: parsed with
\* retrieved_meta attached if the record has none and the retrieval is not empty
AttachRetrieved(parsed, retrieved) ==
    IF "retrieved_meta" \notin DOMAIN parsed.v /\ retrieved # <<>>
    THEN PyDict(("retrieved_meta" :> PyList(retrieved)) @@ parsed.v)
    ELSE parsed

\* assistant_display: official_response first, then the other items of parsed
AssistantDisplay(parsed) ==
    LET first == Get(parsed.v, "official_response", PyNone)
        second == Get(parsed.v, "raw_text", PyNone)
        official == IF Truthy(first) THEN first
                    ELSE IF Truthy(second) THEN second
                    ELSE PyStr(<<>>)
    IN  PyDict(("official_response" :> official) @@ parsed.v)

\* st.session_state of the session after the try/except/else around
\* assistant.query, call being how the query ended and state the session
\* state after the user message was appended
AfterQuery(state, call) ==
    IF call.status = "raised"
    THEN [state EXCEPT !.messages = append_message_safe(@, "assistant", ErrorNotice(call.error))]
    ELSE IF call.parsed.t = "dict"
    THEN LET parsed == AttachRetrieved(call.parsed, call.retrieved)
         IN  [messages |-> append_message_safe(state.messages, "assistant", AssistantDisplay(parsed)),
              last_parsed |-> parsed]
    ELSE [state EXCEPT !.messages = append_message_safe(@, "assistant", PyStr(<<PyRepr(call.parsed)>>))]

\* the constructor as init_assistant runs it, and the first script run of
\* every session
InitApp ==
    \E index \in {i \in IndexChoices : \A q \in DOMAIN i : \A d \in 1..Len(Files) : i[q][d] = <<0, 0>>} :
        /\ corpus = load_documents(Files).corpus
        /\ meta = load_documents(Files).meta
        /\ word_pair = [q \in DOMAIN index |-> [i \in 1..Len(Files) |-> index[q][i][1]]]
        /\ char_pair = [q \in DOMAIN index |-> [i \in 1..Len(Files) |-> index[q][i][2]]]
        /\ chat_history = <<[role |-> "assistant", content |-> PyStr(<<INTRO_TEXT>>)]>>
        /\ query = <<>>
        /\ top_k = TOP_K
        /\ results = <<>>
        /\ pc = "ready"
        /\ last_call = [status |-> "none"]
        /\ session_state = [s \in Sessions |-> NewSessionState]
        /\ submitted = [session |-> 0, run |-> 0]

\* the submit handler of session s: the form was submitted with a non-empty
\* user_input; at most MaxTurns submissions are followed
Submit(s) ==
    /\ submitted.run < MaxTurns
    /\ \E user_input \in AppInputs :
          /\ submitted' = [session |-> s, user_input |-> Strip(user_input), run |-> submitted.run + 1]
          /\ QueryCall({Strip(user_input)}, AppReplies)
          /\ session_state' =
                [session_state EXCEPT ![s] =
                    AfterQuery([@ EXCEPT !.messages =
                                   append_message_safe(@, "user", PyStr(Strip(user_input)))],
                               last_call')]

\* the message list and last_parsed after "Clear chat": the intro, read
\* from assistant.chat_history[0], in the shape of an assistant response
ClearedState ==
    [messages |-> <<[role |-> "assistant",
                     content |-> PyDict([official_response |-> chat_history[1].content,
                                         explain_short |-> PyStr(<<>>)])]>>,
     last_parsed |-> PyDict(<<>>)]

\* mutant of Clear: the button also resets the assistant's history
Clear_forgetting(s) ==
    /\ session_state' = [session_state EXCEPT ![s] = ClearedState]
    /\ chat_history' = <<chat_history[1]>>
    /\ UNCHANGED <<corpus, meta, word_pair, char_pair, query, top_k, results, pc,
                   last_call, submitted>>

\* the "Clear chat" button of session s
Clear(s) ==
    /\ session_state' = [session_state EXCEPT ![s] = ClearedState]
    /\ UNCHANGED <<corpus, meta, word_pair, char_pair, query, top_k, results, pc,
                   chat_history, last_call, submitted>>

NextApp == \E s \in Sessions : Submit(s) \/ Clear(s)

AppSpec == InitApp /\ [][NextApp]_vars

(***************************************************************************)
(* ComposeSpec: compose_messages as a pure function of its arguments       *)
(***************************************************************************)
\* the turns the histories are made of: an assistant reply with line breaks,
\* a user text, a user image without text part
HistoryTurns ==
    {[role |-> "assistant", content |-> PyStr(<<"Wear goggles.\n\nUse a  hood.">>)],
     [role |-> "user", content |-> PyList(<<[type |-> "text", text |-> S_acid]>>)],
     [role |-> "user", content |-> PyList(<<[type |-> "image_url", image_url |-> [url |-> S_xyz]]>>)]}

\* the longest history
MaxHistory == 3

\* the histories of at most MaxHistory turns
Histories == UNION {[1..n -> HistoryTurns] : n \in 0..MaxHistory}

\* the retrievals: none, and two passages
Retrievals ==
    {<<>>,
     <<[text |-> "HCl (gas)\nCAS: 12-34-5", source |-> "HCl.txt", score |-> SCORE_FORMULA, method |-> "formula"],
       [text |-> "An acid\nFormula: HCl", source |-> "an_acid.txt", score |-> SCORE_FORMULA, method |-> "formula"]>>}

\* the arguments of the call: the history, the retrieved passages and the
\* raw input the user content items come from
InitCompose ==
    \E history \in Histories, retrieved \in Retrievals, raw_input \in {S_acid, S_rawImage1} :
        /\ corpus = <<>>
        /\ meta = <<>>
        /\ word_pair = <<>>
        /\ char_pair = <<>>
        /\ query = raw_input
        /\ top_k = TOP_K
        /\ results = retrieved
        /\ pc = "ready"
        /\ chat_history = history
        /\ last_call = [status |-> "none"]
        /\ session_state = <<>>
        /\ submitted = [session |-> 0, run |-> 0]

\* messages = compose_messages(SYSTEM_PROMPT, retrieved, FEW_SHOT_EXAMPLES,
\*                             user_content_items, chat_history)
Compose ==
    /\ pc = "ready"
    /\ last_call' = [status |-> "composed",
                     messages |-> compose_messages(SYSTEM_PROMPT, results, FEW_SHOT_EXAMPLES,
                                                   user_input_to_content(query).items, chat_history)]
    /\ pc' = "done"
    /\ UNCHANGED <<corpus, meta, word_pair, char_pair, query, top_k, results, chat_history,
                   session_state, submitted>>

NextCompose == Compose

ComposeSpec == InitCompose /\ [][NextCompose]_vars

(***************************************************************************)
(* SummarySpec: summarize_history as a pure function of the history, with  *)
(* the max_turns compose_messages passes                                   *)
(***************************************************************************)
\* the turns of the histories: a reply of 246 characters, 205 after the
\* runs of whitespace are collapsed; a user turn of two text parts around
\* an image; a user turn of an image alone
SummaryTurns ==
    {[role |-> "assistant", content |-> PyStr([n \in 1..41 |-> "wear \n"])],
     [role |-> "user",
      content |-> PyList(<<[type |-> "text", text |-> S_acid],
                           [type |-> "image_url", image_url |-> [url |-> S_xyz]],
                           [type |-> "text", text |-> S_HCl]>>)],
     [role |-> "user", content |-> PyList(<<[type |-> "image_url", image_url |-> [url |-> S_xyz]]>>)]}

\* the longest history summarized
MaxSummaryHistory == 7

SummaryHistories == UNION {[1..n -> SummaryTurns] : n \in 0..MaxSummaryHistory}

InitSummary ==
    \E history \in SummaryHistories :
        /\ corpus = <<>>
        /\ meta = <<>>
        /\ word_pair = <<>>
        /\ char_pair = <<>>
        /\ query = <<>>
        /\ top_k = TOP_K
        /\ results = <<>>
        /\ pc = "ready"
        /\ chat_history = history
        /\ last_call = [status |-> "none"]
        /\ session_state = <<>>
        /\ submitted = [session |-> 0, run |-> 0]

\* hist_summary = summarize_history(chat_history, max_turns=6)
Summarize ==
    /\ pc = "ready"
    /\ last_call' = [status |-> "summarized",
                     summary |-> summarize_history(chat_history, SUMMARY_MAX_TURNS)]
    /\ pc' = "done"
    /\ UNCHANGED <<corpus, meta, word_pair, char_pair, query, top_k, results, chat_history,
                   session_state, submitted>>

NextSummary == Summarize

SummarySpec == InitSummary /\ [][NextSummary]_vars

(***************************************************************************)
(* Properties of search_documents, stated on the finished call             *)
(***************************************************************************)
Done == pc = "done"

\* the stripped query and its lowercase form
Q == Strip(query)
QL == Lower(Q)

\* the positions of the corpus
Docs == 1..Len(meta)

\* the methods of the passages returned
Methods == {results[n].method : n \in 1..Len(results)}

\* every CAS-shaped substring of the query, wherever it stands
CasShapes == {SubSeq(Q, p, p + n + 4) : <<p, n>> \in
                 {<<a, b>> \in (1..Len(Q)) \X (2..7) : CasShapeAt(Q, a, b)}}

\* the documents whose stored CAS number contains the substring the CAS tier extracts
CasDocs == {i \in Docs : CasSearch(Q) # NoneStr /\ meta[i].cas # NoneStr
                          /\ Contains(meta[i].cas, CasSearch(Q))}

\* s occurs in t as a whole run of formula characters (a token of t)
IsToken(s, t) ==
    \E p \in 1..(Len(t) - Len(s) + 1) :
        /\ SubSeq(t, p, p + Len(s) - 1) = s
        /\ ~(p - 1 \in 1..Len(t) /\ t[p - 1] \in FormulaChars)
        /\ ~(p + Len(s) \in 1..Len(t) /\ t[p + Len(s)] \in FormulaChars)

\* the documents whose lowercased formula is a token of the lowercased query
FormulaDocs == {i \in Docs : meta[i].formula # NoneStr /\ IsToken(Lower(meta[i].formula), QL)}

\* the documents with an alias the alias tier of the source matches
AliasDocs == {i \in Docs : \E a \in meta[i].aliases : AliasMatch(a, QL)}

\* the combined scores of the call and their maximum
Scores == Combined(word_pair, char_pair, Q)
MaxScore == CHOOSE x \in {Scores[i] : i \in Docs} : \A i \in Docs : Scores[i] <= x
FuzzyDocs == {i \in Docs : Scores[i] >= TFIDF_SCORE_THRESHOLD}

\* the position in the corpus of the document a passage comes from
DocOf(passage) == CHOOSE i \in Docs : meta[i].filename = passage.source

\* the passages of the documents idx (a sequence of positions)
PassagesOf(idx, score, method) ==
    [n \in 1..Len(idx) |-> [text |-> corpus[idx[n]], source |-> meta[idx[n]].filename,
                            score |-> score, method |-> method]]

\* C1: the tiers are tried in the order CAS, formula, alias, fuzzy; the first
\* tier with a hit gives the whole result: all passages of a call carry one
\* method, that of the highest-priority tier that had a hit, and the result
\* is empty only when no tier had a hit.
C1_Cascade ==
    Done =>
        LET expected == IF CasDocs # {} THEN "cas"
                        ELSE IF FormulaDocs # {} THEN "formula"
                        ELSE IF AliasDocs # {} THEN "alias"
                        ELSE IF FuzzyDocs # {} THEN "tfidf"
                        ELSE "none"
        IN  /\ Methods \subseteq {expected}
            /\ (results = <<>>) <=> (expected = "none")

\* C1 witness: a call where the formula tier and the alias tier both have a
\* hit, and so does the fuzzy tier
C1_Witness ==
    /\ Done
    /\ CasDocs = {} /\ FormulaDocs # {} /\ AliasDocs # {} /\ FuzzyDocs # {}
    /\ Methods = {"formula"}

\* C2 (as claimed): every document whose CAS number is a CAS-shaped
\* substring of the query is the first passage returned, with score 1.0 and
\* method "cas", whatever other documents also match.
C2_MatchingDocFirst ==
    Done =>
        \A i \in Docs :
            (meta[i].cas # NoneStr /\ meta[i].cas \in CasShapes)
                => /\ results # <<>>
                   /\ results[1].source = meta[i].filename
                   /\ results[1].score = SCORE_CAS
                   /\ results[1].method = "cas"

\* C3 (as claimed): when the query holds a CAS-shaped substring found in
\* stored CAS numbers, the result is every such document, in corpus order,
\* each with score 1.0 and method "cas".
C3_AllCasMatches ==
    (Done /\ CasDocs # {}) => results = PassagesOf(Ascending(CasDocs), SCORE_CAS, "cas")

\* C4: a result of the formula, alias or fuzzy tier has at most top_k
\* passages; only a result of the CAS tier may have more.
C4_AtMostTopK ==
    Done => \A n \in 1..Len(results) :
                results[n].method \in {"formula", "alias", "tfidf"} => Len(results) <= top_k

\* C4 witness: a formula-tier result that the slice cut down to top_k
C4_Witness ==
    /\ Done
    /\ Methods = {"formula"}
    /\ Cardinality(FormulaDocs) > top_k
    /\ Len(results) = top_k

\* C5 (as claimed): whenever the maximum combined score is below the
\* threshold the result is empty.
C5_BelowThresholdEmpty ==
    (Done /\ MaxScore < TFIDF_SCORE_THRESHOLD) => results = <<>>

\* C5 (amended): whenever no CAS, formula or alias tier has a hit and the
\* maximum combined score is below the threshold, the result is empty.
C5_BelowThresholdEmptyAfterMisses ==
    (Done /\ CasDocs = {} /\ FormulaDocs = {} /\ AliasDocs = {}
          /\ MaxScore < TFIDF_SCORE_THRESHOLD) => results = <<>>

\* C5 witness: the exact tiers miss and the best combined score is positive
\* but below the threshold
C5_Witness ==
    /\ Done
    /\ CasDocs = {} /\ FormulaDocs = {} /\ AliasDocs = {}
    /\ MaxScore > 0 /\ MaxScore < TFIDF_SCORE_THRESHOLD
    /\ results = <<>>

\* C6: a fuzzy-tier result has method "tfidf" throughout, scores at or above
\* the threshold in non-increasing order, one passage per document, and is
\* the top_k best of the admitted documents: min(top_k, admitted) passages,
\* none outscored by an admitted document left out.
C6_FuzzyTopK ==
    (Done /\ results # <<>> /\ results[1].method = "tfidf") =>
        /\ \A n \in 1..Len(results) :
              /\ results[n].method = "tfidf"
              /\ results[n].score >= TFIDF_SCORE_THRESHOLD
              /\ \E i \in Docs : results[n].source = meta[i].filename
              /\ results[n].score = Scores[DocOf(results[n])]
              /\ results[n].text = corpus[DocOf(results[n])]
        /\ \A n1, n2 \in 1..Len(results) :
              /\ n1 < n2 => results[n1].score >= results[n2].score
              /\ n1 # n2 => results[n1].source # results[n2].source
        /\ Len(results) = Min(top_k, Cardinality(FuzzyDocs))
        /\ \A j \in FuzzyDocs :
              (\A n \in 1..Len(results) : results[n].source # meta[j].filename)
                  => \A n \in 1..Len(results) : results[n].score >= Scores[j]

\* C6 witness: more documents admitted than top_k, with different scores,
\* and a document below the threshold
C6_Witness ==
    /\ Done
    /\ results # <<>> /\ results[1].method = "tfidf"
    /\ Cardinality(FuzzyDocs) > top_k
    /\ \E i, j \in FuzzyDocs : Scores[i] # Scores[j]
    /\ \E i \in Docs : Scores[i] < TFIDF_SCORE_THRESHOLD

\* C7: when the CAS tier has no hit, the documents whose lowercased formula
\* is a token of the lowercased query (equal to a whole token, not a part of
\* one) are the hits of the formula tier: if there are any, the result is
\* the first top_k of them in corpus order, each with score 0.98 and method
\* "formula"; and a formula-tier result arises in no other way.
C7_FormulaTier ==
    Done =>
        /\ (CasDocs = {} /\ FormulaDocs # {})
              => results = Take(PassagesOf(Ascending(FormulaDocs), SCORE_FORMULA, "formula"), top_k)
        /\ "formula" \in Methods => (CasDocs = {} /\ FormulaDocs # {})

\* C7 witness: a formula-tier result cut to top_k, in a corpus holding a
\* formula that is a part of a query token without being a token
C7_Witness ==
    /\ Done
    /\ Methods = {"formula"}
    /\ Cardinality(FormulaDocs) > top_k
    /\ \E i \in Docs \ FormulaDocs :
          meta[i].formula # NoneStr /\ Contains(QL, Lower(meta[i].formula))

\* an alias matches as the claim C8 words it: never when shorter than 3
\* characters, by containment when it has a space, and otherwise only where
\* it stands as a whole word of the lowercased query (no word character
\* next to it on either side)
ClaimedAliasMatch(a, s) ==
    LET a_clean == Lower(Strip(a))
    IN  /\ Len(a_clean) >= ALIAS_MIN_LEN
        /\ IF \E i \in 1..Len(a_clean) : a_clean[i] = " "
           THEN Contains(s, a_clean)
           ELSE \E p \in 1..(Len(s) - Len(a_clean) + 1) :
                   /\ SubSeq(s, p, p + Len(a_clean) - 1) = a_clean
                   /\ ~IsWordAt(s, p - 1)
                   /\ ~IsWordAt(s, p + Len(a_clean))

\* C8 (as claimed): when the alias tier decides, the documents it returns
\* are those with an alias of at least 3 characters that is contained in the
\* lowercased query (alias with a space) or stands in it as a whole word
\* (single-token alias), case-insensitively.
C8_AliasWholeWord ==
    (Done /\ CasDocs = {} /\ FormulaDocs = {}) =>
        LET claimed == {i \in Docs : \E a \in meta[i].aliases : ClaimedAliasMatch(a, QL)}
        IN  /\ claimed # {} => results = Take(PassagesOf(Ascending(claimed), SCORE_ALIAS, "alias"), top_k)
            /\ "alias" \in Methods => claimed # {}

(***************************************************************************)
(* Properties of the reply handling of LabSafetyAssistantV3.query          *)
(***************************************************************************)
\* the last query returned a result
Returned == last_call.status = "returned"

\* the last query obtained the message content of the model reply (the two
\* history appends follow at once)
GotContent == Len(chat_history) > 1 /\ last_call.status # "none"
                /\ (last_call.status = "raised" => last_call.error = "TypeError")

\* that message content
LastContent ==
    LET content == chat_history[Len(chat_history)].content
    IN  IF content.t = "None" THEN "None" ELSE content.v[1]

\* json.loads raises on the text
Unparseable(text) == text = "None" \/ ~json_loads(text).ok

\* C9 (as claimed): the structured result of every query that returns holds
\* the key official_response, whatever the reply text was: a JSON object, a
\* JSON value that is no object, or text that is no JSON.
C9_OfficialResponsePresent ==
    Returned => /\ last_call.parsed.t = "dict"
                /\ "official_response" \in DOMAIN last_call.parsed.v

\* C10: when the reply text is not parseable, the normalisation does not
\* raise: the query returns a record that holds the reply under raw_text and
\* a non-empty official_response.
C10_UnparseableReply ==
    (GotContent /\ Unparseable(LastContent)) =>
        /\ Returned
        /\ last_call.parsed.t = "dict"
        /\ "raw_text" \in DOMAIN last_call.parsed.v
        /\ IF LastContent = "None"
           THEN last_call.parsed.v["raw_text"].t = "None"
           ELSE /\ last_call.parsed.v["raw_text"].t = "str"
                /\ last_call.parsed.v["raw_text"].v = <<LastContent>>
        /\ "official_response" \in DOMAIN last_call.parsed.v
        /\ last_call.parsed.v["official_response"].t = "str"
        /\ last_call.parsed.v["official_response"].v # <<>>

\* C10 witness: a reply that is no JSON was answered with the fixed sentence
C10_Witness ==
    /\ GotContent
    /\ LastContent = "I could not format this as JSON"
    /\ Returned
    /\ last_call.parsed.v["official_response"].v = FALLBACK_SENTENCE

\* the reply of the last query as the parse step left it, before the
\* "ensure official_response" step
ParsedReply == ParseReply(LastContent)

\* the fields the claimed synthesis condition names
CLAIMED_SYNTH_KEYS ==
    {"hazards", "ppe_required", "ppe_recommended", "immediate_actions", "explain_short"}

\* C11 (as claimed): when the parsed record has no official_response, the
\* query returns it with official_response the template paragraph if at
\* least one of hazards, ppe_required, ppe_recommended, immediate_actions,
\* explain_short is present, and the fixed sentence only if none is.
C11_SynthesizedWhenAnyField ==
    (GotContent /\ ParsedReply.t = "dict" /\ "official_response" \notin DOMAIN ParsedReply.v) =>
        /\ Returned
        /\ last_call.parsed.v["official_response"] =
              IF CLAIMED_SYNTH_KEYS \cap DOMAIN ParsedReply.v # {}
              THEN PyStr(synthesize_paragraph_from_struct(ParsedReply.v))
              ELSE PyStr(FALLBACK_SENTENCE)

(***************************************************************************)
(* Properties of the client, of the model call and of the history          *)
(***************************************************************************)
\* the session of the last form submission, and what its left panel shows
Submitted == submitted.session # 0
ShownParsed == session_state[submitted.session].last_parsed

\* the source file names of the passages retrieved by the last query
RetrievedSources == [n \in 1..Len(last_call.retrieved) |-> <<last_call.retrieved[n].source>>]

\* a script run of the submit handler (and not of the Clear chat button)
SubmitStep == submitted'.run # submitted.run

\* the record shown holds the provenance of the turn
ProvenanceShown ==
    (Submitted /\ Returned /\ last_call.parsed.t = "dict") =>
        /\ "retrieved_meta" \in DOMAIN ShownParsed.v
        /\ ShownParsed.v["retrieved_meta"] = PyList(last_call.retrieved)
        /\ "retrieved_sources" \in DOMAIN ShownParsed.v
        /\ ShownParsed.v["retrieved_sources"] = PyList(RetrievedSources)

\* C12 (as claimed): the structured result shown for a turn holds
\* retrieved_meta and retrieved_sources, equal to the passages the search
\* returned for that turn and to their file names, whatever the reply of the
\* model held under these names and also when the retrieval was empty.
C12_ProvenanceFromRetrieval == [][SubmitStep => ProvenanceShown']_vars

\* the errors of a failed model call: raise_for_status, the timeout of
\* requests.post, and the subscript on a body without choices
MODEL_CALL_ERRORS == {"HTTPError", "Timeout", "KeyError"}

\* the error notice of the last query
LastNotice == [role |-> "assistant", content |-> ErrorNotice(last_call.error)]

\* C13: a query whose model call fails raises one error and returns nothing,
\* leaves chat_history as it was, and in the session that submitted it the
\* only messages added are the user's own message and the error notice,
\* which the message list then holds; the left panel and the other session
\* stay as they were.
C13_FailedCall ==
    [][(SubmitStep /\ last_call'.status = "raised" /\ last_call'.error \in MODEL_CALL_ERRORS) =>
          LET s == submitted'.session
              before == session_state[s].messages
              after == session_state'[s].messages
              notice == [role |-> "assistant", content |-> ErrorNotice(last_call'.error)]
              user == [role |-> "user", content |-> PyStr(submitted'.user_input)]
              added == {n \in 1..Len(after) : n > Len(before)}
          IN  /\ "parsed" \notin DOMAIN last_call'
              /\ chat_history' = chat_history
              /\ Len(after) >= Len(before)
              /\ SubSeq(after, 1, Len(before)) = before
              /\ \A n \in added : after[n] = user \/ after[n] = notice
              /\ Cardinality({n \in added : after[n].role = "assistant"}) <= 1
              /\ \E n \in 1..Len(after) : after[n] = notice
              /\ session_state'[s].last_parsed = session_state[s].last_parsed
              /\ \A o \in Sessions \ {s} : session_state'[o] = session_state[o]]_vars

\* C13 witness: after an answered turn, the same session's next query timed
\* out: its list ends with the notice, the history still has the one turn
C13_Witness ==
    /\ Submitted
    /\ last_call.status = "raised" /\ last_call.error = "Timeout"
    /\ Len(chat_history) = 3
    /\ LET shown == session_state[submitted.session].messages
       IN  /\ Len(shown) = 5
           /\ shown[5] = LastNotice
           /\ shown[4].role = "user"

C15_HistoryAppendOnly ==
    [][/\ Len(chat_history') >= Len(chat_history)
       /\ SubSeq(chat_history', 1, Len(chat_history)) = chat_history]_vars

\* C15 witness: two answered queries and a failed one
C15_Witness ==
    /\ Len(chat_history) = 5
    /\ last_call.status = "raised"
    /\ chat_history[1].content = PyStr(<<INTRO_TEXT>>)

\* the first position of pat in the string s, 0 if there is none
Find(s, pat) ==
    LET hits == {i \in 1..(Len(s) - Len(pat) + 1) : SubSeq(s, i, i + Len(pat) - 1) = pat}
    IN  IF hits = {} THEN 0 ELSE CHOOSE i \in hits : \A j \in hits : i <= j

Composed == last_call.status = "composed"

\* C16: compose_messages returns 1 + len(history) + 1 messages: the system
\* message, whose content is the instructions, then the summary block if and
\* only if the history is not empty, then the block of the retrieved
\* passages with every source, then the few-shot block; then the prior
\* turns as they are, in their order; then the new user turn, last. No copy
\* of the new turn stands before the last position: positions 2..n-1 are the
\* history the call was given.
C16_MessageOrder ==
    Composed =>
        LET m == last_call.messages
            n == Len(m)
            c == m[1].content.v[1]
            at_summary == Find(c, "\nCONVERSATION_SUMMARY:\n")
            at_retrieved == Find(c, "RETRIEVED PASSAGES:\n")
            at_few_shot == Find(c, "\nFEW_SHOT_EXAMPLES:\n")
        IN  /\ n = 1 + Len(chat_history) + 1
            /\ m[1].role = "system"
            /\ \A k \in 2..n : m[k].role # "system"
            /\ SubSeq(m, 2, n - 1) = chat_history
            /\ m[n] = [role |-> "user", content |-> PyList(user_input_to_content(query).items)]
            /\ SubSeq(c, 1, Len(SYSTEM_PROMPT) + 2) = SYSTEM_PROMPT \o "\n\n"
            /\ (at_summary # 0) <=> (chat_history # <<>>)
            /\ at_summary # 0 => (at_summary = Len(SYSTEM_PROMPT) + 3 /\ at_summary < at_retrieved)
            /\ at_summary = 0 => at_retrieved = Len(SYSTEM_PROMPT) + 3
            /\ at_retrieved # 0 /\ at_retrieved < at_few_shot
            /\ \A r \in 1..Len(results) :
                  LET at_source == Find(c, "- Source: " \o results[r].source)
                  IN  at_retrieved < at_source /\ at_source < at_few_shot
            /\ \A e \in 1..Len(FEW_SHOT_EXAMPLES) :
                  Find(c, "INPUT: " \o FEW_SHOT_EXAMPLES[e].user) > at_few_shot

\* C16 witness: a history of three turns, two passages, an image input
C16_Witness ==
    /\ Composed
    /\ Len(chat_history) = 3
    /\ Len(results) = 2
    /\ Len(last_call.messages) = 5
    /\ Len(last_call.messages[5].content.v) = 2
    /\ chat_history[3] = last_call.messages[4]

\* the content items of the user turn of the last query
LastItems == last_call.messages[Len(last_call.messages)].content.v

\* the last query had an image-bearing input
ImageTurn == last_call.status # "none" /\ Len(LastItems) = 2

\* C17: for an input image:<reference> the text given to search_documents
\* is the placeholder "(image provided)": the passages retrieved are those
\* of a search for the placeholder, whatever the reference, and the
\* reference is no part of the query.
C17_ImageQueryIsPlaceholder ==
    ImageTurn =>
        /\ query = S_placeholder
        /\ ~Contains(query, LastItems[2].image_url.url)
        /\ \E ranked \in RankedChoices(Combined(word_pair, char_pair, S_placeholder)) :
              results = search_documents(S_placeholder, corpus, meta, word_pair, char_pair, TOP_K, ranked)
        /\ Returned => last_call.retrieved = results

\* C17 witness: the reference names a document the search would find by its
\* formula, and the passages are those of the fuzzy tier for the placeholder
C17_Witness ==
    /\ ImageTurn
    /\ LastItems[2].image_url.url = S_HCl
    /\ results # <<>>
    /\ \A n \in 1..Len(results) : results[n].method = "tfidf"

\* C18: no step changes the corpus, the metadata or the fitted indexes.
C18_IndexReadOnly ==
    [][UNCHANGED <<corpus, meta, word_pair, char_pair>>]_vars

\* C18 witness: both sessions have queried, one after the other, and the
\* index is the one the constructor built
C18_Witness ==
    /\ submitted.run = 2
    /\ Len(chat_history) = 5
    /\ session_state[1].messages # NewSessionState.messages
    /\ session_state[2].messages # NewSessionState.messages
    /\ corpus = load_documents(Files).corpus
    /\ meta = load_documents(Files).meta

\* every user turn among the prior turns of the last prompt is a message of
\* the session that submitted the query
PromptOfOwnTurns ==
    Submitted =>
        LET prompt == last_call.messages
            own == session_state[submitted.session].messages
        IN  \A k \in 2..(Len(prompt) - 1) :
                prompt[k].role = "user" =>
                    \E n \in 1..Len(own) :
                        /\ own[n].role = "user"
                        /\ prompt[k].content = PyList(user_input_to_content(own[n].content.v).items)

\* C19 (as claimed): the prior turns in the prompt composed for a session's
\* query are turns of that session: every user turn among them is a message
\* the session itself submitted.
C19_SessionOwnsHistory == [][SubmitStep => PromptOfOwnTurns']_vars

\* C20 (as claimed): when the retrieval of a turn is empty and the query
\* returns, the structured result has confidence "low".
C20_EmptyRetrievalLowConfidence ==
    (Returned /\ last_call.retrieved = <<>>) =>
        /\ last_call.parsed.t = "dict"
        /\ "confidence" \in DOMAIN last_call.parsed.v
        /\ last_call.parsed.v["confidence"] = PyStr(<<"low">>)

\* C21: the "ensure official_response" step leaves a record that holds
\* official_response as it is, whatever the value under the key; applied
\* to its own output, once or twice, it does not raise and gives the same
\* record.
C21_NormalizationIdempotent ==
    Returned =>
        LET once == EnsureOfficialResponse(ParsedReply)
            twice == EnsureOfficialResponse(once)
        IN  /\ last_call.parsed = once
            /\ (ParsedReply.t = "dict" /\ "official_response" \in DOMAIN ParsedReply.v)
                   => once = ParsedReply
            /\ ~EnsureRaises(once)
            /\ twice = once
            /\ ~EnsureRaises(twice)
            /\ EnsureOfficialResponse(twice) = once

\* C21 witness: the reply holds an empty official_response beside hazards,
\* and the record returned still holds the empty one
C21_Witness ==
    /\ Returned
    /\ last_call.parsed.t = "dict"
    /\ {"hazards", "official_response"} \subseteq DOMAIN last_call.parsed.v
    /\ last_call.parsed.v["official_response"] = PyStr(<<>>)
    /\ last_call.parsed = ParsedReply

\* C22: a result of the alias tier is the first top_k documents with a
\* matching alias, in corpus order, each once (whatever the number of its
\* aliases that match), each with score 0.95 and method "alias".
C22_AliasTierResult ==
    (Done /\ ((CasDocs = {} /\ FormulaDocs = {} /\ AliasDocs # {})
               \/ \E n \in 1..Len(results) : results[n].method = "alias")) =>
        /\ results = PassagesOf(Take(Ascending(AliasDocs), top_k), SCORE_ALIAS, "alias")
        /\ Len(results) = Min(top_k, Cardinality(AliasDocs))
        /\ \A a, b \in 1..Len(results) :
               a < b => DocOf(results[a]) < DocOf(results[b])
        /\ \A n \in 1..Len(results) :
               /\ DocOf(results[n]) \in AliasDocs
               /\ results[n].score = SCORE_ALIAS
               /\ results[n].method = "alias"
               /\ \A i \in AliasDocs : i < DocOf(results[n]) =>
                      \E n2 \in 1..(n - 1) : DocOf(results[n2]) = i

\* C22 witness: more documents match by alias than top_k admits, and one
\* of those returned matches by two of its aliases
C22_Witness ==
    /\ Done
    /\ CasDocs = {} /\ FormulaDocs = {}
    /\ Cardinality(AliasDocs) > top_k
    /\ Len(results) = top_k
    /\ results[1].method = "alias"
    /\ \E n \in 1..Len(results) :
          Cardinality({a \in meta[DocOf(results[n])].aliases : AliasMatch(a, QL)}) >= 2

(***************************************************************************)
(* Properties of summarize_history                                         *)
(***************************************************************************)
Summarized == pc = "done" /\ last_call.status = "summarized"

\* the lines of a text: the pieces between its newline characters
SplitLines(s) ==
    LET nl == Ascending({i \in 1..Len(s) : CharAt(s, i) = "\n"})
    IN  [k \in 1..(Len(nl) + 1) |->
            SubSeq(s, IF k = 1 THEN 1 ELSE nl[k - 1] + 1,
                      IF k = Len(nl) + 1 THEN Len(s) ELSE nl[k] - 1)]

SummaryLines == SplitLines(last_call.summary)

\* the text parts of list-shaped content, in order
TextParts(content) ==
    LET idx == Ascending({n \in 1..Len(content.v) : content.v[n].type = "text"})
    IN  [n \in 1..Len(idx) |-> Str(content.v[idx[n]].text)]

\* the content a line shows for a turn: the text parts joined by single
\* spaces, or the placeholder; a str as it is; runs of whitespace collapsed;
\* more than 200 characters cut to 197 and "..."
ShownContent(content) ==
    LET text == IF content.t = "list"
                THEN (IF Len(TextParts(content)) = 0 THEN "(image provided)"
                      ELSE JoinStr(" ", TextParts(content)))
                ELSE Str(content.v)
        one_line == CollapseWhitespace(text)
    IN  IF Len(one_line) > 200 THEN SubSeq(one_line, 1, 197) \o "..." ELSE one_line

RoleName(role) == IF role = "user" THEN "User" ELSE "Assistant"

\* C23: every line of the summary has at most 200 characters.
C23_LineAtMost200 ==
    Summarized => \A k \in 1..Len(SummaryLines) : Len(SummaryLines[k]) <= 200

C25_HistoryOfAnsweredQueries ==
    /\ [](/\ Len(chat_history) % 2 = 1
          /\ chat_history[1] = [role |-> "assistant", content |-> PyStr(<<INTRO_TEXT>>)]
          /\ \A i \in 2..Len(chat_history) :
                 chat_history[i].role = IF i % 2 = 0 THEN "user" ELSE "assistant")
    /\ [][/\ (last_call'.status = "returned") =>
               (/\ Len(chat_history') = Len(chat_history) + 2
                /\ SubSeq(chat_history', 1, Len(chat_history)) = chat_history
                /\ chat_history'[Len(chat_history') - 1].role = "user"
                /\ chat_history'[Len(chat_history')].role = "assistant"
                /\ chat_history'[Len(chat_history')].content
                       \in {PyNone, PyStr(<<last_call'.reply>>)})
          /\ (last_call'.status = "raised") => (chat_history' = chat_history)]_vars

====
